---- MODULE Spec2Model ----
(***************************************************************************)
(* Model of doc/examples/denoise_ascm.py: the driver script that loads a   *)
(* 4D image, derives a mask, estimates the noise sigma, runs               *)
(* non_local_means twice (small and large patch radius), fuses the two     *)
(* results with ascm, plots and saves.                                     *)
(*                                                                         *)
(* Arrays are functions from 0-based index tuples to integers.  A volume   *)
(* has shape (NX, 1, d): the middle axis always has extent 1.  The three   *)
(* library routines (estimate_sigma, non_local_means, ascm) live outside   *)
(* the script; they are modelled here as pure integer functions that       *)
(* follow the contracts of the specification (sections 4.1 - 4.3).         *)
(***************************************************************************)
EXTENDS Integers, Sequences, FiniteSets, TLC

\* ------------------------------------------------------------- bounds
\* extent of the first axis of every volume
NX == 1
\* the third axis has extent d in 1..MaxD
MaxD == 2
\* the brightest intensity of the data channel (the other one is 0)
MaxIntensity == 100
\* resolution of the blend weight w = wn / WDen
WDen == 4

\* ------------------------------------------------- program constants
\* mask = data[..., 0] > 80
MaskThreshold == 80
\* estimate_sigma(data, N=4)
CoilCount == 4
\* patch_radius=1 of the first non_local_means call
SmallPatchRadius == 1
\* patch_radius=2 of the second non_local_means call
LargePatchRadius == 2
\* block_radius=1 of both calls
BlockRadius == 1

\* the value of a name that is not bound yet
None == <<>>

\* ------------------------------------------------------------ helpers
Abs(x) == IF x < 0 THEN -x ELSE x

Max(a, b) == IF a >= b THEN a ELSE b

Clamp(i, n) == IF i < 0 THEN 0 ELSE IF i > n - 1 THEN n - 1 ELSE i

\* the largest r in lo..hi with r * r <= n, by bisection
RECURSIVE ISqrtIn(_, _, _)
ISqrtIn(n, lo, hi) ==
    IF lo = hi THEN lo
    ELSE LET mid == (lo + hi + 1) \div 2
         IN IF mid * mid <= n THEN ISqrtIn(n, mid, hi) ELSE ISqrtIn(n, lo, mid - 1)

\* floor of the square root
ISqrt(n) == ISqrtIn(n, 0, n)

RECURSIVE SumF(_, _)
SumF(f, S) ==
    IF S = {} THEN 0
    ELSE LET x == CHOOSE y \in S : TRUE IN f[x] + SumF(f, S \ {x})

RECURSIVE MaxF(_, _)
MaxF(f, S) ==
    IF S = {} THEN 0
    ELSE LET x == CHOOSE y \in S : TRUE IN Max(f[x], MaxF(f, S \ {x}))

\* index sets of a 3D volume and of a 4D image with two channels
Coords3(d) == (0..(NX - 1)) \X {0} \X (0..(d - 1))

Coords4(d) == (0..(NX - 1)) \X {0} \X (0..(d - 1)) \X {0, 1}

\* arr.shape[k] of a 3D array
Shape0(arr) == Cardinality({p[1] : p \in DOMAIN arr})

Shape2(arr) == Cardinality({p[3] : p \in DOMAIN arr})

\* the voxel at p + o, clamped to a volume of shape (nx, 1, nz)
Shift(nx, nz, p, o) == <<Clamp(p[1] + o[1], nx), 0, Clamp(p[3] + o[2], nz)>>

\* ------------------------------------------- library: estimate_sigma
\* the correction factor of the coil count, in thousandths
CorrectionMilli(N) == CASE N = 0 -> 1000 [] N = 1 -> 429 [] N = 4 -> 483 [] OTHER -> 500

\* Sigma of a 3D volume: the root mean square, over ALL voxels, of the
\* difference between a voxel and its six face neighbours (the two along
\* the middle axis are the voxel itself), scaled by the coil-count
\* correction.  Returns an array of one element.
EstimateSigma(arr, N) ==
    LET nx == Shape0(arr)
        nz == Shape2(arr)
        resid == [p \in DOMAIN arr |->
                    LET r == 4 * arr[p]
                             - arr[Shift(nx, nz, p, <<-1, 0>>)] - arr[Shift(nx, nz, p, <<1, 0>>)]
                             - arr[Shift(nx, nz, p, <<0, -1>>)] - arr[Shift(nx, nz, p, <<0, 1>>)]
                    IN r * r]
        total == SumF(resid, DOMAIN arr)
        n == Cardinality(DOMAIN arr)
    IN <<ISqrt((total * 1000) \div (42 * n * CorrectionMilli(N)))>>

\* ------------------------------------------ library: non_local_means
\* f[lo] + ... + f[hi]
RECURSIVE SumTo(_, _, _)
SumTo(f, lo, hi) == IF lo > hi THEN 0 ELSE f[lo] + SumTo(f, lo + 1, hi)

\* mean squared difference of the patches of radius r around v and u
PatchDist(arr, nx, nz, v, u, r) ==
    LET sq(ox, oz) ==
            LET x == arr[Shift(nx, nz, v, <<ox, oz>>)] - arr[Shift(nx, nz, u, <<ox, oz>>)]
            IN x * x
        row == [ox \in -r..r |-> SumTo([oz \in -r..r |-> sq(ox, oz)], -r, r)]
    IN SumTo(row, -r, r) \div ((2 * r + 1) * (2 * r + 1))

\* the search block of radius b around v
Block(arr, v, b) ==
    {u \in DOMAIN arr : Abs(u[1] - v[1]) <= b /\ Abs(u[3] - v[3]) <= b}

\* A voxel inside the mask becomes the mean of the voxels of its block
\* whose patch is within the noise level of its own patch (with the Rician
\* bias removed when rician is set); a voxel outside the mask is not
\* processed and is 0 in the result.  sigma is an array of one element.
NonLocalMeans(arr, sigma, mask, patch_radius, block_radius, rician) ==
    LET nx == Shape0(arr)
        nz == Shape2(arr)
        s2 == sigma[1] * sigma[1]
        similar(v) == {u \in Block(arr, v, block_radius) :
                          PatchDist(arr, nx, nz, v, u, patch_radius) <= 5 * s2}
        sqr == [p \in DOMAIN arr |-> arr[p] * arr[p]]
    IN [v \in DOMAIN arr |->
          IF ~mask[v] THEN 0
          ELSE LET S == similar(v)
                   n == Cardinality(S)
               IN IF rician
                  THEN ISqrt(Max(0, (SumF(sqr, S) \div n) - 2 * s2))
                  ELSE SumF(arr, S) \div n]

\* ------------------------------------------------------ library: ascm
\* local structure of the reference volume at v: the largest difference to
\* a face neighbour
Edge(ima, v) ==
    LET nx == Shape0(ima)
        nz == Shape2(ima)
        nb == {Shift(nx, nz, v, o) : o \in {<<-1, 0>>, <<1, 0>>, <<0, -1>>, <<0, 1>>}}
        df == [u \in nb |-> Abs(ima[v] - ima[u])]
    IN MaxF(df, nb)

\* numerator of the blend weight, in 0..WDen: towards WDen (the sharper
\* input) where the structure is strong, towards 0 for a large h
Weight(ima, v, h) ==
    LET e == Edge(ima, v) IN IF e + h = 0 THEN 0 ELSE (e * WDen) \div (e + h)

\* F[v] = w[v]*S[v] + (1 - w[v])*L[v]
Ascm(ima, fimau, fimao, h) ==
    [v \in DOMAIN ima |->
        LET wn == Weight(ima, v, h)
        IN (wn * fimau[v] + (WDen - wn) * fimao[v]) \div WDen]

\* ============================================================== state
VARIABLES
    dataset,        \* what read_sherbrooke_3shell finds on disk: [data, affine]
    pc,             \* the statement the script is at
    img,            \* img of line 26
    affine,         \* line 29
    data,           \* line 28 (4D), rebound to channel 1 at line 32 (3D)
    mask,           \* line 31
    sigma,          \* line 46
    den_small,      \* line 53
    den_large,      \* line 66
    den_final,      \* line 81
    axial_middle,   \* line 89: <<kind, numerator, denominator>>
    original,       \* line 91
    final_output,   \* line 92
    difference,     \* line 93
    png_ascm,       \* denoised_ascm.png: the three panels of line 106
    nii,            \* denoised_ascm.nii.gz: <<volume, affine>> of line 117
    png_cmp,        \* ascm_comparison.png: the four panels of line 144
    nlm_calls,      \* the arguments of every non_local_means call so far
    ascm_calls,     \* the arguments of every ascm call so far
    pcS, pcL,       \* parallel schedule: position of the two denoiser tasks
    argsS, argsL,   \* parallel schedule: the arguments a running task has read
    dataset2,       \* two-run comparison: what the second run finds on disk
    data2, mask2, sigma2   \* two-run comparison: data, mask, sigma of that run

vars == <<dataset, pc, img, affine, data, mask, sigma, den_small, den_large,
          den_final, axial_middle, original, final_output, difference,
          png_ascm, nii, png_cmp, nlm_calls, ascm_calls,
          pcS, pcL, argsS, argsL, dataset2, data2, mask2, sigma2>>

\* ------------------------------------------------------------- inputs
Ch0Vals == {MaskThreshold, MaskThreshold + 1}

Ch1Vals == {0, MaxIntensity}

\* the 4D images of shape (NX, 1, d, 2)
Images(d) ==
    {[p \in Coords4(d) |-> IF p[4] = 0 THEN a[<<p[1], p[2], p[3]>>]
                                        ELSE b[<<p[1], p[2], p[3]>>]] :
        a \in [Coords3(d) -> Ch0Vals], b \in [Coords3(d) -> Ch1Vals]}

\* the spatial transform is opaque: a tag
Affines == {<<1>>, <<2>>}

Datasets ==
    {[data |-> i, affine |-> a] : i \in UNION {Images(d) : d \in 1..MaxD}, a \in Affines}

\* ----------------------------------------------------- array indexing
\* the 3D index set of a 4D array
Voxels(arr4) == {<<p[1], p[2], p[3]>> : p \in DOMAIN arr4}

\* arr4[..., c]
Channel(arr4, c) == [p \in Voxels(arr4) |-> arr4[<<p[1], p[2], p[3], c>>]]

\* arr[:, :, k].T of a 3D array: element (r, c) is arr[c, r, k]
SliceT(arr, k) ==
    [q \in {<<p[2], p[1]>> : p \in DOMAIN arr} |-> arr[<<q[2], q[1], k>>]]

\* arr > 80, elementwise
Threshold(arr) == [p \in DOMAIN arr |-> arr[p] > MaskThreshold]

\* ------------------------------------------------- the script's order
\* a variant order: the fusion ahead of the second denoiser call
NextPcSwapFusion(p) ==
    CASE p = "load" -> "mask"
      [] p = "mask" -> "select"
      [] p = "select" -> "sigma"
      [] p = "sigma" -> "den_small"
      [] p = "den_small" -> "ascm"
      [] p = "ascm" -> "den_large"
      [] p = "den_large" -> "axial"
      [] p = "axial" -> "slice"
      [] p = "slice" -> "diff"
      [] p = "diff" -> "zero"
      [] p = "zero" -> "fig1"
      [] p = "fig1" -> "save"
      [] p = "save" -> "fig2"
      [] p = "fig2" -> "done"

\* a variant order: both figures ahead of nib.save
NextPcSaveLast(p) ==
    CASE p = "load" -> "mask"
      [] p = "mask" -> "select"
      [] p = "select" -> "sigma"
      [] p = "sigma" -> "den_small"
      [] p = "den_small" -> "den_large"
      [] p = "den_large" -> "ascm"
      [] p = "ascm" -> "axial"
      [] p = "axial" -> "slice"
      [] p = "slice" -> "diff"
      [] p = "diff" -> "zero"
      [] p = "zero" -> "fig1"
      [] p = "fig1" -> "fig2"
      [] p = "fig2" -> "save"
      [] p = "save" -> "done"

\* the statement after statement p
NextPc(p) ==
    CASE p = "load" -> "mask"
      [] p = "mask" -> "select"
      [] p = "select" -> "sigma"
      [] p = "sigma" -> "den_small"
      [] p = "den_small" -> "den_large"
      [] p = "den_large" -> "ascm"
      [] p = "ascm" -> "axial"
      [] p = "axial" -> "slice"
      [] p = "slice" -> "diff"
      [] p = "diff" -> "zero"
      [] p = "zero" -> "fig1"
      [] p = "fig1" -> "save"
      [] p = "save" -> "fig2"
      [] p = "fig2" -> "done"

\* ------------------------------------------- arguments of the calls
\* a variant: the volume with the voxels outside the mask set to 0
SigmaArgMasked(vol, msk) == [p \in DOMAIN vol |-> IF msk[p] THEN vol[p] ELSE 0]

\* the array passed to estimate_sigma, of the volume and the mask at hand
SigmaArg(vol, msk) == vol

\* non_local_means(data, sigma=sigma, mask=mask, patch_radius=1, block_radius=1, rician=True)
SmallCallArgs == <<data, sigma, mask, SmallPatchRadius, BlockRadius, TRUE>>

\* a variant: the second call fed with the result of the first
LargeCallArgsChained == <<den_small, sigma, mask, LargePatchRadius, BlockRadius, TRUE>>

\* non_local_means(data, sigma=sigma, mask=mask, patch_radius=2, block_radius=1, rician=True)
LargeCallArgs == <<data, sigma, mask, LargePatchRadius, BlockRadius, TRUE>>

\* variants: S and L exchanged; the noisy volume in the place of S
AscmCallArgsSwapped == <<data, den_large, den_small, sigma[1]>>

AscmCallArgsNoisy == <<data, data, den_large, sigma[1]>>

\* ascm(data, den_small, den_large, sigma[0])
AscmCallArgs == <<data, den_small, den_large, sigma[1]>>

CallNonLocalMeans(a) == NonLocalMeans(a[1], a[2], a[3], a[4], a[5], a[6])

CallAscm(a) == Ascm(a[1], a[2], a[3], a[4])

\* --------------------------------------------------------------- Init
InitRun ==
    /\ dataset \in Datasets
    /\ pc = "load"
    /\ img = None /\ affine = None /\ data = None /\ mask = None
    /\ sigma = None /\ den_small = None /\ den_large = None /\ den_final = None
    /\ axial_middle = None /\ original = None /\ final_output = None
    /\ difference = None
    /\ png_ascm = None /\ nii = None /\ png_cmp = None
    /\ nlm_calls = <<>> /\ ascm_calls = <<>>
    /\ pcS = "idle" /\ pcL = "idle" /\ argsS = None /\ argsL = None
    /\ data2 = None /\ mask2 = None /\ sigma2 = None

\* a single run of the script
Init == InitRun /\ dataset2 = dataset

\* ------------------------------------------------------------ actions
\* lines 25-29: fetch, read, get_data, get_affine
Load ==
    /\ pc = "load"
    /\ img' = dataset
    /\ data' = dataset.data
    /\ affine' = dataset.affine
    /\ pc' = NextPc(pc)
    /\ UNCHANGED <<dataset, mask, sigma, den_small, den_large, den_final,
                   axial_middle, original, final_output, difference, png_ascm,
                   nii, png_cmp, nlm_calls, ascm_calls, pcS, pcL, argsS, argsL,
                   dataset2, data2, mask2, sigma2>>

\* line 31: mask = data[..., 0] > 80
DeriveMask ==
    /\ pc = "mask"
    /\ mask' = Threshold(Channel(data, 0))
    /\ pc' = NextPc(pc)
    /\ UNCHANGED <<dataset, img, affine, data, sigma, den_small, den_large,
                   den_final, axial_middle, original, final_output, difference,
                   png_ascm, nii, png_cmp, nlm_calls, ascm_calls, pcS, pcL,
                   argsS, argsL, dataset2, data2, mask2, sigma2>>

\* line 32: data = data[..., 1]
SelectChannel ==
    /\ pc = "select"
    /\ data' = Channel(data, 1)
    /\ pc' = NextPc(pc)
    /\ UNCHANGED <<dataset, img, affine, mask, sigma, den_small, den_large,
                   den_final, axial_middle, original, final_output, difference,
                   png_ascm, nii, png_cmp, nlm_calls, ascm_calls, pcS, pcL,
                   argsS, argsL, dataset2, data2, mask2, sigma2>>

\* line 46: sigma = estimate_sigma(data, N=4)
EstimateSigmaStep ==
    /\ pc = "sigma"
    /\ sigma' = EstimateSigma(SigmaArg(data, mask), CoilCount)
    /\ pc' = NextPc(pc)
    /\ UNCHANGED <<dataset, img, affine, data, mask, den_small, den_large,
                   den_final, axial_middle, original, final_output, difference,
                   png_ascm, nii, png_cmp, nlm_calls, ascm_calls, pcS, pcL,
                   argsS, argsL, dataset2, data2, mask2, sigma2>>

\* lines 53-59: den_small = non_local_means(...)
DenSmall ==
    /\ pc = "den_small"
    /\ den_small' = CallNonLocalMeans(SmallCallArgs)
    /\ nlm_calls' = Append(nlm_calls, SmallCallArgs)
    /\ pc' = NextPc(pc)
    /\ UNCHANGED <<dataset, img, affine, data, mask, sigma, den_large,
                   den_final, axial_middle, original, final_output, difference,
                   png_ascm, nii, png_cmp, ascm_calls, pcS, pcL, argsS, argsL,
                   dataset2, data2, mask2, sigma2>>

\* lines 66-72: den_large = non_local_means(...)
DenLarge ==
    /\ pc = "den_large"
    /\ den_large' = CallNonLocalMeans(LargeCallArgs)
    /\ nlm_calls' = Append(nlm_calls, LargeCallArgs)
    /\ pc' = NextPc(pc)
    /\ UNCHANGED <<dataset, img, affine, data, mask, sigma, den_small,
                   den_final, axial_middle, original, final_output, difference,
                   png_ascm, nii, png_cmp, ascm_calls, pcS, pcL, argsS, argsL,
                   dataset2, data2, mask2, sigma2>>

\* line 81: den_final = np.array(ascm(data, den_small, den_large, sigma[0]))
Fuse ==
    /\ pc = "ascm"
    /\ den_final' = CallAscm(AscmCallArgs)
    /\ ascm_calls' = Append(ascm_calls, AscmCallArgs)
    /\ pc' = NextPc(pc)
    /\ UNCHANGED <<dataset, img, affine, data, mask, sigma, den_small,
                   den_large, axial_middle, original, final_output, difference,
                   png_ascm, nii, png_cmp, nlm_calls, pcS, pcL, argsS, argsL,
                   dataset2, data2, mask2, sigma2>>

\* the variables of the parallel schedule and of the two-run comparison
aux == <<pcS, pcL, argsS, argsL, dataset2, data2, mask2, sigma2>>

\* the operator "/" of line 89 is floor division on integers under Python 2
\* and true division (a float) under Python 3: a number is <<kind, num, den>>
Divide(n, m, semantics) ==
    IF semantics = "floor" THEN <<"int", n \div m, 1>> ELSE <<"float", n, m>>

\* int(x): the index a float is truncated to by a numpy that still accepts it
IndexOf(x) == x[2] \div x[3]

\* line 89 under Python 2: axial_middle = data.shape[2] / 2
AxialMiddleFloor ==
    /\ pc = "axial"
    /\ axial_middle' = Divide(Shape2(data), 2, "floor")
    /\ pc' = NextPc(pc)
    /\ UNCHANGED <<dataset, img, affine, data, mask, sigma, den_small,
                   den_large, den_final, original, final_output, difference,
                   png_ascm, nii, png_cmp, nlm_calls, ascm_calls, aux>>

\* line 89 under Python 3
AxialMiddleTrue ==
    /\ pc = "axial"
    /\ axial_middle' = Divide(Shape2(data), 2, "true")
    /\ pc' = NextPc(pc)
    /\ UNCHANGED <<dataset, img, affine, data, mask, sigma, den_small,
                   den_large, den_final, original, final_output, difference,
                   png_ascm, nii, png_cmp, nlm_calls, ascm_calls, aux>>

\* lines 91-92: original = data[:, :, axial_middle].T and
\* final_output = den_final[:, :, axial_middle].T.  An integer index inside
\* the axis selects a slice; a float index is truncated (with a warning) by
\* numpy before 1.12.
SliceOk ==
    /\ pc = "slice"
    /\ IndexOf(axial_middle) \in 0..(Shape2(data) - 1)
    /\ original' = SliceT(data, IndexOf(axial_middle))
    /\ final_output' = SliceT(den_final, IndexOf(axial_middle))
    /\ pc' = NextPc(pc)
    /\ UNCHANGED <<dataset, img, affine, data, mask, sigma, den_small,
                   den_large, den_final, axial_middle, difference,
                   png_ascm, nii, png_cmp, nlm_calls, ascm_calls, aux>>

\* line 91 raising IndexError: a float index under numpy 1.12 or later, or
\* an index outside the axis
SliceFail ==
    /\ pc = "slice"
    /\ \/ axial_middle[1] = "float"
       \/ IndexOf(axial_middle) \notin 0..(Shape2(data) - 1)
    /\ pc' = "failed"
    /\ UNCHANGED <<dataset, img, affine, data, mask, sigma, den_small,
                   den_large, den_final, axial_middle, original, final_output,
                   difference, png_ascm, nii, png_cmp, nlm_calls, ascm_calls, aux>>

\* np.abs(a.astype('f8') - b.astype('f8'))
AbsDiff(a, b) == Abs(a - b)

\* line 93
Diff ==
    /\ pc = "diff"
    /\ difference' = [q \in DOMAIN final_output |->
                         AbsDiff(final_output[q], original[q])]
    /\ pc' = NextPc(pc)
    /\ UNCHANGED <<dataset, img, affine, data, mask, sigma, den_small,
                   den_large, den_final, axial_middle, original, final_output,
                   png_ascm, nii, png_cmp, nlm_calls, ascm_calls, aux>>

\* a variant: the index without the negation
ZeroWhereInside(m) == m

\* the boolean index of line 94: ~mask
ZeroWhere(m) == ~m

\* a variant: the store goes into the view original
StoreTargetOriginal == "original"

\* the array line 94 assigns into
StoreTarget == "difference"

\* arr with 0 stored at the positions sel
Zeroed(arr, sel) == [q \in DOMAIN arr |-> IF q \in sel THEN 0 ELSE arr[q]]

\* line 94: difference[~mask[:, :, axial_middle].T] = 0.  difference owns its
\* buffer (np.abs returns a new array); original is a view of data, which
\* is a view of the image's array, so a store into it writes through.
ZeroOutsideMask ==
    /\ pc = "zero"
    /\ LET k == IndexOf(axial_middle)
           m == SliceT(mask, k)
           sel == {q \in DOMAIN m : ZeroWhere(m[q])}
           vox == {<<q[2], q[1], k>> : q \in sel}
       IN IF StoreTarget = "difference"
          THEN /\ difference' = Zeroed(difference, sel)
               /\ UNCHANGED <<original, data, img>>
          ELSE /\ original' = Zeroed(original, sel)
               /\ data' = Zeroed(data, vox)
               /\ img' = [img EXCEPT !.data =
                             Zeroed(img.data, {<<p[1], p[2], p[3], 1>> : p \in vox})]
               /\ UNCHANGED difference
    /\ pc' = NextPc(pc)
    /\ UNCHANGED <<dataset, affine, mask, sigma, den_small, den_large,
                   den_final, axial_middle, final_output,
                   png_ascm, nii, png_cmp, nlm_calls, ascm_calls, aux>>

\* lines 96-106: the Original / ASCM output / Residual figure, saved
Fig1 ==
    /\ pc = "fig1"
    /\ png_ascm' = <<original, final_output, difference>>
    /\ pc' = NextPc(pc)
    /\ UNCHANGED <<dataset, img, affine, data, mask, sigma, den_small,
                   den_large, den_final, axial_middle, original, final_output,
                   difference, nii, png_cmp, nlm_calls, ascm_calls, aux>>

\* a variant: the small-patch volume is saved
SavedVolumeSmall == den_small

\* the volume of nib.Nifti1Image(den_final, affine)
SavedVolume == den_final

\* line 117: nib.save(nib.Nifti1Image(den_final, affine), 'denoised_ascm.nii.gz')
Save ==
    /\ pc = "save"
    /\ nii' = <<SavedVolume, affine>>
    /\ pc' = NextPc(pc)
    /\ UNCHANGED <<dataset, img, affine, data, mask, sigma, den_small,
                   den_large, den_final, axial_middle, original, final_output,
                   difference, png_ascm, png_cmp, nlm_calls, ascm_calls, aux>>

\* lines 130-144: the Original / NLMEANS small / NLMEANS large / ASCM figure
Fig2 ==
    /\ pc = "fig2"
    /\ png_cmp' = <<original,
                    SliceT(den_small, IndexOf(axial_middle)),
                    SliceT(den_large, IndexOf(axial_middle)),
                    final_output>>
    /\ pc' = NextPc(pc)
    /\ UNCHANGED <<dataset, img, affine, data, mask, sigma, den_small,
                   den_large, den_final, axial_middle, original, final_output,
                   difference, png_ascm, nii, nlm_calls, ascm_calls, aux>>

Next ==
    \/ Load \/ DeriveMask \/ SelectChannel \/ EstimateSigmaStep
    \/ DenSmall \/ DenLarge \/ Fuse
    \/ AxialMiddleFloor \/ AxialMiddleTrue \/ SliceOk \/ SliceFail
    \/ Diff \/ ZeroOutsideMask \/ Fig1 \/ Save \/ Fig2

\* the script as written: one statement after the other
Spec == Init /\ [][Next]_vars

\* ------------------------------------------------ parallel schedule
\* The two denoiser calls run as two tasks: a task reads its arguments when
\* it starts and stores its result when it finishes; the fusion call waits
\* for both.
seq == <<axial_middle, original, final_output, difference, png_ascm, nii,
         png_cmp, dataset2, data2, mask2, sigma2>>

\* lines 53-59, the call begins: the arguments are read
StartSmall ==
    /\ pc = "den_small" /\ pcS = "idle"
    /\ argsS' = SmallCallArgs
    /\ pcS' = "running"
    /\ UNCHANGED <<dataset, pc, img, affine, data, mask, sigma, den_small,
                   den_large, den_final, nlm_calls, ascm_calls, pcL, argsL, seq>>

\* lines 53-59, the call returns: den_small is bound
FinishSmall ==
    /\ pcS = "running"
    /\ den_small' = CallNonLocalMeans(argsS)
    /\ nlm_calls' = Append(nlm_calls, argsS)
    /\ pcS' = "done"
    /\ UNCHANGED <<dataset, pc, img, affine, data, mask, sigma, den_large,
                   den_final, ascm_calls, pcL, argsS, argsL, seq>>

\* lines 66-72, the call begins
StartLarge ==
    /\ pc = "den_small" /\ pcL = "idle"
    /\ argsL' = LargeCallArgs
    /\ pcL' = "running"
    /\ UNCHANGED <<dataset, pc, img, affine, data, mask, sigma, den_small,
                   den_large, den_final, nlm_calls, ascm_calls, pcS, argsS, seq>>

\* lines 66-72, the call returns: den_large is bound
FinishLarge ==
    /\ pcL = "running"
    /\ den_large' = CallNonLocalMeans(argsL)
    /\ nlm_calls' = Append(nlm_calls, argsL)
    /\ pcL' = "done"
    /\ UNCHANGED <<dataset, pc, img, affine, data, mask, sigma, den_small,
                   den_final, ascm_calls, pcS, argsS, argsL, seq>>

\* the barrier before line 81
Join ==
    /\ pc = "den_small" /\ pcS = "done" /\ pcL = "done"
    /\ pc' = "ascm"
    /\ UNCHANGED <<dataset, img, affine, data, mask, sigma, den_small,
                   den_large, den_final, nlm_calls, ascm_calls,
                   pcS, pcL, argsS, argsL, seq>>

NextPar ==
    \/ Load \/ DeriveMask \/ SelectChannel \/ EstimateSigmaStep
    \/ StartSmall \/ FinishSmall \/ StartLarge \/ FinishLarge \/ Join
    \/ Fuse

\* the spatial transform plays no part before line 117: one tag is enough
InitPar == Init /\ dataset.affine = <<1>>

\* the script up to the fusion, the two denoiser calls in any interleaving
SpecPar == InitPar /\ [][NextPar]_vars

\* ------------------------------------------------ two-run comparison
\* a dataset that differs from ds in one sample of one channel
Perturbed(ds) ==
    UNION {{[ds EXCEPT !.data = [ds.data EXCEPT ![p] = v]] :
               v \in (IF p[4] = 0 THEN Ch0Vals ELSE Ch1Vals) \ {ds.data[p]}} :
           p \in DOMAIN ds.data}

InitPair == InitRun /\ dataset2 \in Perturbed(dataset)

run1 == <<dataset, img, affine, den_small, den_large, den_final, axial_middle,
          original, final_output, difference, png_ascm, nii, png_cmp,
          nlm_calls, ascm_calls, pcS, pcL, argsS, argsL, dataset2>>

\* lines 25-29 in both runs
LoadPair ==
    /\ pc = "load"
    /\ img' = dataset /\ data' = dataset.data /\ affine' = dataset.affine
    /\ data2' = dataset2.data
    /\ pc' = NextPc(pc)
    /\ UNCHANGED <<dataset, mask, sigma, den_small, den_large, den_final,
                   axial_middle, original, final_output, difference, png_ascm,
                   nii, png_cmp, nlm_calls, ascm_calls, pcS, pcL, argsS, argsL,
                   dataset2, mask2, sigma2>>

\* line 31 in both runs
DeriveMaskPair ==
    /\ pc = "mask"
    /\ mask' = Threshold(Channel(data, 0))
    /\ mask2' = Threshold(Channel(data2, 0))
    /\ pc' = NextPc(pc)
    /\ UNCHANGED <<run1, data, sigma, data2, sigma2>>

\* line 32 in both runs
SelectChannelPair ==
    /\ pc = "select"
    /\ data' = Channel(data, 1)
    /\ data2' = Channel(data2, 1)
    /\ pc' = NextPc(pc)
    /\ UNCHANGED <<run1, mask, sigma, mask2, sigma2>>

\* line 46 in both runs
EstimateSigmaPair ==
    /\ pc = "sigma"
    /\ sigma' = EstimateSigma(SigmaArg(data, mask), CoilCount)
    /\ sigma2' = EstimateSigma(SigmaArg(data2, mask2), CoilCount)
    /\ pc' = NextPc(pc)
    /\ UNCHANGED <<run1, data, mask, data2, mask2>>

NextPair == LoadPair \/ DeriveMaskPair \/ SelectChannelPair \/ EstimateSigmaPair

\* two runs of the script, side by side, up to the sigma estimation
SpecPair == InitPair /\ [][NextPair]_vars

\* ------------------------------------------- the script's composition
\* what lines 31-81, executed in the order of the script, compute from a
\* dataset: <<den_small, den_large, den_final>>
Sequential(ds) ==
    LET m == Threshold(Channel(ds.data, 0))
        d == Channel(ds.data, 1)
        s == EstimateSigma(SigmaArg(d, m), CoilCount)
        S == NonLocalMeans(d, s, m, SmallPatchRadius, BlockRadius, TRUE)
        L == NonLocalMeans(d, s, m, LargePatchRadius, BlockRadius, TRUE)
    IN <<S, L, Ascm(d, S, L, s[1])>>

\* the statements after line 94, after line 81
AfterZero == {"fig1", "save", "fig2", "done"}

AfterFusion == {"axial", "slice", "diff", "zero", "failed"} \cup AfterZero

\* ============================================================= claims

\* C1: the fusion call starts only once both non_local_means calls have
\* returned, and each of these starts only once sigma has been estimated;
\* no argument of the fusion call is an unbound volume.
C1_FusionAfterDenoisers ==
    /\ (pc \in {"den_small", "den_large"} => sigma # None)
    /\ (den_small # None \/ den_large # None => sigma # None)
    /\ (pc = "ascm" => den_small # None /\ den_large # None)
    /\ (den_final # None => den_small # None /\ den_large # None /\ sigma # None)
    /\ \A i \in 1..Len(ascm_calls) :
          ascm_calls[i][2] # None /\ ascm_calls[i][3] # None

C1_Witness ==
    /\ pc = "axial" /\ den_final # None
    /\ Len(nlm_calls) = 2 /\ Len(ascm_calls) = 1
    /\ den_small # den_large

\* C2 as claimed: by the time the fused volume is written to disk, both
\* figures (denoised_ascm.png and ascm_comparison.png) have been saved.
C2_AllFiguresBeforeSave ==
    nii # None => png_ascm # None /\ png_cmp # None

\* C2 as amended: the Original/ASCM/Residual figure is saved before the
\* fused volume is written to disk, and the NLMEANS-vs-ASCM comparison
\* figure is saved after it.
C2_FirstFigureThenSaveThenComparison ==
    /\ (nii # None => png_ascm # None)
    /\ (png_cmp # None => nii # None)

C2_Witness ==
    pc = "fig2" /\ png_ascm # None /\ nii # None /\ png_cmp = None

\* C3 as claimed: two runs with the same mask whose volumes agree at every
\* voxel inside the mask estimate the same sigma.
C3_SigmaIgnoresOutsideMask ==
    (/\ pc = "den_small"
     /\ mask = mask2
     /\ \A p \in DOMAIN data : mask[p] => data[p] = data2[p])
    => sigma = sigma2

\* C3 as amended: the mask is no input of the noise estimation, which reads
\* every voxel of the volume: two runs whose volumes are equal at every
\* voxel estimate the same sigma, whatever their masks.
C3_SigmaIgnoresMask ==
    (pc = "den_small" /\ data = data2) => sigma = sigma2

C3_Witness ==
    /\ pc = "den_small" /\ data = data2 /\ mask # mask2
    /\ sigma = sigma2 /\ sigma[1] > 0

\* C4: once line 94 has run, every pixel of the residual image is 0 where
\* the mask is false and |fused - original| >= 0 where it is true, and the
\* fused slice is the slice of den_final, not zeroed by line 94.
C4_ResidualMaskedAbsDiff ==
    pc \in AfterZero =>
        \A q \in DOMAIN difference :
            LET v == <<q[2], q[1], IndexOf(axial_middle)>>
                f == den_final[v]
                o == data[v]
            IN /\ difference[q] = (IF ~mask[v] THEN 0
                                   ELSE IF f >= o THEN f - o ELSE o - f)
               /\ difference[q] >= 0
               /\ final_output[q] = f
               /\ original[q] = o

C4_Witness ==
    /\ pc \in AfterZero
    /\ \E q \in DOMAIN difference :
          LET v == <<q[2], q[1], IndexOf(axial_middle)>>
          IN ~mask[v] /\ den_final[v] # data[v] /\ difference[q] = 0

\* C5: non_local_means is called exactly twice; the two calls get the same
\* volume, sigma, mask, block radius and Rician flag and differ in the
\* patch radius, the first smaller than the second; ascm gets the volume,
\* the result of the small-radius call as S, the result of the large-radius
\* call as L, and sigma[0] of that same sigma as h.
C5_TwoCallsDifferInRadius ==
    /\ Len(nlm_calls) <= 2 /\ Len(ascm_calls) <= 1
    /\ (pc \in {"ascm"} \cup AfterFusion => Len(nlm_calls) = 2)
    /\ (Len(nlm_calls) = 2 =>
          /\ \A k \in {1, 2, 3, 5, 6} : nlm_calls[1][k] = nlm_calls[2][k]
          /\ nlm_calls[1][4] < nlm_calls[2][4]
          /\ nlm_calls[1][1] = data /\ nlm_calls[1][2] = sigma
          /\ nlm_calls[1][3] = mask)
    /\ (pc = "den_large" => den_small = CallNonLocalMeans(nlm_calls[1]))
    /\ (pc = "ascm" => den_large = CallNonLocalMeans(nlm_calls[2]))
    /\ (pc \in AfterFusion =>
          /\ Len(ascm_calls) = 1
          /\ ascm_calls[1][1] = data
          /\ ascm_calls[1][2] = den_small
          /\ ascm_calls[1][3] = den_large
          /\ ascm_calls[1][4] = nlm_calls[1][2][1])

C5_Witness ==
    /\ pc = "axial" /\ Len(nlm_calls) = 2 /\ Len(ascm_calls) = 1
    /\ den_small # den_large /\ sigma[1] > 0
    /\ ascm_calls[1][2] = den_small

\* C6: with the two denoiser calls run as tasks in any interleaving and the
\* fusion after both, the inputs of the calls are left as they were and
\* den_small, den_large and den_final are what the script's order computes.
C6_InterleavingSameResult ==
    /\ (pc \in {"den_small", "ascm", "axial"} =>
          /\ data = Channel(dataset.data, 1)
          /\ mask = Threshold(Channel(dataset.data, 0)))
    /\ (pc \in {"ascm", "axial"} =>
          LET r == Sequential(dataset)
          IN /\ den_small = r[1]
             /\ den_large = r[2]
             /\ (pc = "axial" => den_final = r[3]))

C6_Witness ==
    /\ pc = "axial" /\ pcS = "done" /\ pcL = "done"
    /\ nlm_calls[1][4] = LargePatchRadius
    /\ den_small # den_large
    /\ den_final = Sequential(dataset)[3]

\* C7: no step changes the loaded image, the volume or the mask once they
\* are bound: after line 32 data stays as it is, and so do mask and the
\* array of img.  The one in-place store (line 94) goes into difference,
\* an array of its own: the volumes and slices bound before it (den_small,
\* den_large, den_final, original, final_output) stay as they are too.
C7_NoInPlaceMutation ==
    [][/\ (mask # None => mask' = mask)
       /\ (pc \notin {"load", "mask", "select"} => data' = data)
       /\ (img # None => img' = img)
       /\ (den_small # None => den_small' = den_small)
       /\ (den_large # None => den_large' = den_large)
       /\ (den_final # None => den_final' = den_final)
       /\ (original # None => original' = original)
       /\ (final_output # None => final_output' = final_output)]_vars

C7_Witness ==
    /\ pc = "done"
    /\ \E q \in DOMAIN difference :
          LET v == <<q[2], q[1], IndexOf(axial_middle)>>
          IN ~mask[v] /\ data[v] # 0 /\ difference[q] = 0 /\ original[q] = data[v]

\* C8: the file written at line 117 holds den_final and the affine read
\* from the input image, which is still what was read.
C8_SavedFusedWithInputAffine ==
    /\ (affine # None => affine = dataset.affine)
    /\ (nii # None =>
          /\ nii[1] = den_final
          /\ nii[2] = dataset.affine)

C8_Witness ==
    /\ nii # None
    /\ nii[1] # data /\ nii[1] # den_small /\ nii[1] # den_large

C10_MiddleIndexIsInteger ==
    /\ (axial_middle # None =>
          /\ axial_middle[1] = "int"
          /\ axial_middle[3] = 1
          /\ axial_middle[2] \in 0..(Shape2(data) - 1))
    /\ pc # "failed"

====
